---- MODULE Spec2Model ----
(***************************************************************************)
(* A model of vdrm-emu/src/plot3d.rs: the pyramid test surface, the lazily *)
(* built angle context cache (CTX), the projection composed for each frame *)
(* and the frame drawn by draw().                                          *)
(*                                                                         *)
(* Four specifications share the variables:                                *)
(*   Spec         draw calls issued one at a time by the UI thread, the    *)
(*                cache built on the first access, every codec output      *)
(*   SpecRace     several threads calling draw concurrently                *)
(*   SpecSurface  calls of gen_pyramid_surface, one row of the grid a step  *)
(*   SpecProj     the closure handed to with_projection                    *)
(***************************************************************************)
EXTENDS Integers, Sequences, FiniteSets, TLC

\* ------------------------------------------------------------------ bounds
\* vdrm_alg::TOTAL_ANGLES, a constant of the codec crate (value not in this file)
TotalAngles == 2
\* the longest point list decode returns for one angle
MaxPts == 1
\* threads calling draw concurrently in SpecRace
NumDraws == 2
\* the widest and tallest canvas of SpecProj, in pixels
MaxDim == 6
\* the calls of gen_pyramid_surface in SpecSurface
MaxCalls == 2

\* --------------------------------------------------------------- constants
\* gen_pyramid_surface: the grid is GridSize x GridSize, its centre column is
\* Centre and the height there is Peak
GridSize == 64
Centre == 32
Peak == 32
\* the yaw and pitch gate of the projection, 1e-20, as EpsMant * 10^EpsExp
EpsMant == 1
EpsExp == -20

VARIABLES
    \* lazy_static CTX: the state of its Once, the thread running Ctx::new,
    \* and the value stored when the initialiser returns
    once, builder, CTX,
    \* the locals of Ctx::new
    angle_map, next_angle, angle_ctx_map, all_emu_pixels, all_led_pixels,
    \* how often Ctx::new, Codec::encode and Codec::decode (per angle) ran
    new_calls, encode_calls, decode_calls,
    \* one draw frame per thread
    pc, angle, canvas, legend, clouds, result, failed,
    \* gen_pyramid_surface
    surf_pc, surface_calls, gx, pixel_surface,
    \* the with_projection closure
    range, pitch, yaw, mat

ctxVars == <<once, builder, CTX, angle_map, next_angle, angle_ctx_map,
             all_emu_pixels, all_led_pixels, new_calls, encode_calls, decode_calls>>
drawVars == <<pc, angle, canvas, legend, clouds, result, failed>>
surfaceVars == <<surf_pc, surface_calls, gx, pixel_surface>>
projVars == <<range, pitch, yaw, mat>>
vars == <<ctxVars, drawVars, surfaceVars, projVars>>

\* ------------------------------------------------------------ Option<T>
None == [some |-> FALSE]
Some(v) == [some |-> TRUE, val |-> v]

\* ------------------------------------------------------------ the codec
Angles == 0..(TotalAngles - 1)
\* the reflected content of one angle, as far as decode's output depends on it
Lines == [emu : 0..MaxPts, led : 0..MaxPts]
\* the sparse mappings encode may return: any subset of the angles
MapsOver(contents) == UNION {[S -> contents] : S \in SUBSET Angles}
AngleMaps == MapsOver(Lines)
\* decode(angle, lines) -> (emu_pixels, led_pixels)
Decode(a, lines) ==
    [emu |-> [i \in 1..lines.emu |-> <<"emu", a, i>>],
     led |-> [i \in 1..lines.led |-> <<"led", a, i>>]]

\* ------------------------------------------------------ geometry values
MirrorNew(a) == <<"mirror", a, 0>>
ScreenNew(idx) == <<"screen", idx, 0>>
AllRealPixels == << <<"real", 0, 0>> >>

\* ---------------------------------------------------------------- Ctx::new
\* the range the closure is mapped over
AngleRange_from1 == 1..TotalAngles
AngleRange == 0..(TotalAngles - 1)

\* Vec::extend
Extend_front(all, pixels) == pixels \o all
Extend(all, pixels) == all \o pixels

\* the closure of Ctx::new for one angle: the AngleCtx it returns, whether it
\* called decode, and the aggregates after it
AngleClosure(map, a, all_emu, all_led) ==
    IF a \notin DOMAIN map
    THEN [ctx |-> [mirror |-> MirrorNew(a), led_pixels |-> <<>>, emu_pixels |-> <<>>],
          decoded |-> FALSE, all_emu |-> all_emu, all_led |-> all_led]
    ELSE LET d == Decode(a, map[a])
         IN [ctx |-> [mirror |-> MirrorNew(a), led_pixels |-> d.led, emu_pixels |-> d.emu],
             decoded |-> TRUE,
             all_emu |-> Extend(all_emu, d.emu),
             all_led |-> Extend(all_led, d.led)]

\* BTreeMap insert, as collect() does for each pair
Insert(m, k, v) == [x \in (DOMAIN m) \cup {k} |-> IF x = k THEN v ELSE m[x]]
\* BTreeMap::get
AngleGet_or_default(m, k) ==
    IF k \in DOMAIN m THEN Some(m[k])
    ELSE Some([mirror |-> MirrorNew(k), led_pixels |-> <<>>, emu_pixels |-> <<>>])
AngleGet(m, k) == IF k \in DOMAIN m THEN Some(m[k]) ELSE None

EmptyMap == [x \in {} |-> 0]
NoCtx == [angle_ctx_map |-> EmptyMap, all_real_pixels |-> <<>>,
          all_emu_pixels |-> <<>>, all_led_pixels |-> <<>>, screens |-> <<>>]

\* Once: a thread that finds it incomplete runs the initialiser; one that
\* finds it running waits; one that finds it complete reads the value
OnceMayRun_unguarded(s) == s # "complete"
OnceMayRun(s) == s = "incomplete"

\* ------------------------------------------------------------------- draw
Threads == 1..NumDraws
\* the UI thread, which issues draw calls one at a time
UiThread == {1}
\* the angle a caller may pass: none, a populated key, or the first key past them
AngleArgs == {None} \cup {Some(a) : a \in 0..TotalAngles}
\* the inputs of SpecRace
RaceArgs == {Some(0)}
RaceMaps == MapsOver({[emu |-> 1, led |-> 1]})

\* the statement draw reaches after `step`, for the angle it was called with
NextStep_ledFirst(step, ang) ==
    CASE step = "fill" -> "chart"
      [] step = "chart" -> "axes"
      [] step = "axes" -> "labels"
      [] step = "labels" -> "screen"
      [] step = "screen" -> "real"
      [] step = "real" -> "select"
      [] step = "select" -> IF ang.some THEN "mirror" ELSE "led"
      [] step = "mirror" -> "led"
      [] step = "led" -> "emu"
      [] step = "emu" -> "legend"
      [] step = "legend" -> "return"
NextStep(step, ang) ==
    CASE step = "fill" -> "chart"
      [] step = "chart" -> "axes"
      [] step = "axes" -> "labels"
      [] step = "labels" -> "screen"
      [] step = "screen" -> "real"
      [] step = "real" -> "select"
      [] step = "select" -> IF ang.some THEN "mirror" ELSE "emu"
      [] step = "mirror" -> "emu"
      [] step = "emu" -> "led"
      [] step = "led" -> "legend"
      [] step = "legend" -> "return"

\* what a failed backend call becomes: `?` returns the error to the caller,
\* .unwrap() (the axis-label series) panics
OnFail(step) == IF step = "labels" THEN "panic:labels" ELSE "err"

\* the clouds the selection branch yields
SelectClouds_alsoAll(ctx, ang) ==
    IF ang.some
    THEN [emu |-> ctx.all_emu_pixels \o ctx.angle_ctx_map[ang.val].emu_pixels,
          led |-> ctx.all_led_pixels \o ctx.angle_ctx_map[ang.val].led_pixels]
    ELSE [emu |-> ctx.all_emu_pixels, led |-> ctx.all_led_pixels]
SelectClouds(ctx, ang) ==
    IF ang.some
    THEN [emu |-> ctx.angle_ctx_map[ang.val].emu_pixels,
          led |-> ctx.angle_ctx_map[ang.val].led_pixels]
    ELSE [emu |-> ctx.all_emu_pixels, led |-> ctx.all_led_pixels]

NoClouds == [emu |-> <<>>, led |-> <<>>]

\* thread p leaves draw with result r
Leave(p, r) ==
    /\ pc' = [pc EXCEPT ![p] = "idle"]
    /\ result' = [result EXCEPT ![p] = r]

\* one backend call of draw: it draws `data` (and registers `label` for the
\* legend when it has one) or fails
BackendStep(p, step, data, label, cl) ==
    /\ pc[p] = step
    /\ \E ok \in BOOLEAN :
        IF ok
        THEN /\ canvas' = [canvas EXCEPT ![p] = Append(@, [step |-> step, data |-> data])]
             /\ legend' = [legend EXCEPT ![p] = IF label = "" THEN @ ELSE Append(@, label)]
             /\ clouds' = [clouds EXCEPT ![p] = cl]
             /\ IF NextStep(step, angle[p]) = "return"
                THEN Leave(p, "ok")
                ELSE /\ pc' = [pc EXCEPT ![p] = NextStep(step, angle[p])]
                     /\ UNCHANGED result
             /\ UNCHANGED failed
        ELSE /\ Leave(p, OnFail(step))
             /\ failed' = [failed EXCEPT ![p] = step]
             /\ UNCHANGED <<canvas, legend, clouds>>
    /\ UNCHANGED <<angle, ctxVars, surfaceVars, projVars>>

\* draw(canvas, angle, pitch, yaw) is called: with_canvas_object(..).unwrap()
DrawCall(p, args) ==
    /\ pc[p] = "idle"
    /\ \E a \in args, canvas_ok \in BOOLEAN :
        /\ angle' = [angle EXCEPT ![p] = a]
        /\ IF canvas_ok
           THEN /\ pc' = [pc EXCEPT ![p] = "fill"]
                /\ result' = [result EXCEPT ![p] = "running"]
           ELSE Leave(p, "panic:canvas")
    /\ canvas' = [canvas EXCEPT ![p] = <<>>]
    /\ legend' = [legend EXCEPT ![p] = <<>>]
    /\ clouds' = [clouds EXCEPT ![p] = NoClouds]
    /\ failed' = [failed EXCEPT ![p] = "none"]
    /\ UNCHANGED <<ctxVars, surfaceVars, projVars>>

Fill(p) == BackendStep(p, "fill", <<>>, "", clouds[p])
BuildChart(p) == BackendStep(p, "chart", <<>>, "", clouds[p])
DrawAxes(p) == BackendStep(p, "axes", <<>>, "", clouds[p])
DrawLabels(p) == BackendStep(p, "labels", <<>>, "", clouds[p])

\* the first use of CTX in draw: the Once is incomplete, p runs Ctx::new
CtxBegin(p) ==
    /\ pc[p] = "screen"
    /\ OnceMayRun(once)
    /\ once' = "running"
    /\ builder' = p
    /\ new_calls' = new_calls + 1
    /\ pc' = [pc EXCEPT ![p] = "ctx_encode"]
    /\ UNCHANGED <<CTX, angle_map, next_angle, angle_ctx_map, all_emu_pixels,
                   all_led_pixels, encode_calls, decode_calls>>
    /\ UNCHANGED <<angle, canvas, legend, clouds, result, failed, surfaceVars, projVars>>

RangeStart(R) == IF R = {} THEN 0 ELSE CHOOSE x \in R : \A y \in R : x <= y

\* Codec::new, gen_pyramid_surface, all_real_pixels, codec.encode(&surface, 0)
CtxNewEncode(p, maps) ==
    /\ pc[p] = "ctx_encode"
    /\ \E m \in maps : angle_map' = m
    /\ encode_calls' = encode_calls + 1
    /\ next_angle' = RangeStart(AngleRange)
    /\ angle_ctx_map' = EmptyMap
    /\ all_emu_pixels' = <<>>
    /\ all_led_pixels' = <<>>
    /\ pc' = [pc EXCEPT ![p] = "ctx_angles"]
    /\ UNCHANGED <<once, builder, CTX, new_calls, decode_calls>>
    /\ UNCHANGED <<angle, canvas, legend, clouds, result, failed, surfaceVars, projVars>>

\* one turn of (0..TOTAL_ANGLES).map(|angle| ..).collect()
CtxNewAngle(p) ==
    /\ pc[p] = "ctx_angles"
    /\ next_angle \in AngleRange
    /\ LET r == AngleClosure(angle_map, next_angle, all_emu_pixels, all_led_pixels)
       IN /\ angle_ctx_map' = Insert(angle_ctx_map, next_angle, r.ctx)
          /\ all_emu_pixels' = r.all_emu
          /\ all_led_pixels' = r.all_led
          /\ decode_calls' = IF r.decoded
                             THEN [decode_calls EXCEPT ![next_angle] = @ + 1]
                             ELSE decode_calls
    /\ next_angle' = next_angle + 1
    /\ UNCHANGED <<once, builder, CTX, angle_map, new_calls, encode_calls>>
    /\ UNCHANGED <<drawVars, surfaceVars, projVars>>

\* Self { .. } is returned, the Once completes and p goes on with CTX.screens
CtxNewFinish(p) ==
    /\ pc[p] = "ctx_angles"
    /\ next_angle \notin AngleRange
    /\ CTX' = [angle_ctx_map |-> angle_ctx_map,
               all_real_pixels |-> AllRealPixels,
               all_emu_pixels |-> all_emu_pixels,
               all_led_pixels |-> all_led_pixels,
               screens |-> <<ScreenNew(0), ScreenNew(1), ScreenNew(2)>>]
    /\ once' = "complete"
    /\ angle_ctx_map' = EmptyMap
    /\ all_emu_pixels' = <<>>
    /\ all_led_pixels' = <<>>
    /\ pc' = [pc EXCEPT ![p] = "screen"]
    /\ UNCHANGED <<builder, angle_map, next_angle, new_calls, encode_calls, decode_calls>>
    /\ UNCHANGED <<angle, canvas, legend, clouds, result, failed, surfaceVars, projVars>>

DrawScreens(p) ==
    /\ once = "complete"
    /\ BackendStep(p, "screen", CTX.screens, "SCREEN", clouds[p])

DrawReal(p) ==
    /\ once = "complete"
    /\ BackendStep(p, "real", CTX.all_real_pixels, "REAL", clouds[p])

\* match angle { None => all clouds, Some(angle) => CTX.angle_ctx_map.get(&angle).unwrap() }
Select(p) ==
    /\ pc[p] = "select"
    /\ once = "complete"
    /\ IF ~angle[p].some
       THEN /\ clouds' = [clouds EXCEPT ![p] = SelectClouds(CTX, angle[p])]
            /\ pc' = [pc EXCEPT ![p] = NextStep("select", angle[p])]
            /\ UNCHANGED result
       ELSE IF AngleGet(CTX.angle_ctx_map, angle[p].val).some
            THEN /\ pc' = [pc EXCEPT ![p] = NextStep("select", angle[p])]
                 /\ UNCHANGED <<clouds, result>>
            ELSE /\ Leave(p, "panic:lookup")
                 /\ UNCHANGED clouds
    /\ UNCHANGED <<angle, canvas, legend, failed, ctxVars, surfaceVars, projVars>>

DrawMirror(p) ==
    /\ once = "complete"
    /\ pc[p] = "mirror"
    /\ BackendStep(p, "mirror",
                   <<AngleGet(CTX.angle_ctx_map, angle[p].val).val.mirror>>, "MIRROR",
                   SelectClouds(CTX, angle[p]))

DrawEmu(p) == BackendStep(p, "emu", clouds[p].emu, "EMULATOR", clouds[p])
DrawLed(p) == BackendStep(p, "led", clouds[p].led, "", clouds[p])
DrawLegend(p) == BackendStep(p, "legend", <<>>, "", clouds[p])

DrawNext(p, args, maps) ==
    \/ DrawCall(p, args)
    \/ Fill(p)
    \/ BuildChart(p)
    \/ DrawAxes(p)
    \/ DrawLabels(p)
    \/ CtxBegin(p)
    \/ CtxNewEncode(p, maps)
    \/ CtxNewAngle(p)
    \/ CtxNewFinish(p)
    \/ DrawScreens(p)
    \/ DrawReal(p)
    \/ Select(p)
    \/ DrawMirror(p)
    \/ DrawEmu(p)
    \/ DrawLed(p)
    \/ DrawLegend(p)

InitCtx ==
    /\ once = "incomplete"
    /\ builder = 0
    /\ CTX = NoCtx
    /\ angle_map = EmptyMap
    /\ next_angle = 0
    /\ angle_ctx_map = EmptyMap
    /\ all_emu_pixels = <<>>
    /\ all_led_pixels = <<>>
    /\ new_calls = 0
    /\ encode_calls = 0
    /\ decode_calls = [a \in Angles |-> 0]

InitDraw ==
    /\ pc = [p \in Threads |-> "idle"]
    /\ angle = [p \in Threads |-> None]
    /\ canvas = [p \in Threads |-> <<>>]
    /\ legend = [p \in Threads |-> <<>>]
    /\ clouds = [p \in Threads |-> NoClouds]
    /\ result = [p \in Threads |-> "none"]
    /\ failed = [p \in Threads |-> "none"]

InitSurfaceIdle ==
    /\ surf_pc = "idle"
    /\ surface_calls = 0
    /\ gx = 0
    /\ pixel_surface = <<>>

InitProjIdle ==
    /\ range = [x0 |-> 0, x1 |-> 0, y0 |-> 0, y1 |-> 0]
    /\ pitch = [nan |-> FALSE, m |-> 0, e |-> 0]
    /\ yaw = [nan |-> FALSE, m |-> 0, e |-> 0]
    /\ mat = [built |-> FALSE, steps |-> <<>>]

Init == InitCtx /\ InitDraw /\ InitSurfaceIdle /\ InitProjIdle
Next == \E p \in UiThread : DrawNext(p, AngleArgs, AngleMaps)
Spec == Init /\ [][Next]_vars

NextRace == \E p \in Threads : DrawNext(p, RaceArgs, RaceMaps)
SpecRace == Init /\ [][NextRace]_vars

\* ------------------------------------------------------ gen_pyramid_surface
Abs(n) == IF n < 0 THEN -n ELSE n

\* h = 32 - (x_i32.abs() + y_i32.abs())
Height(x, y) == Peak - (Abs(x - Centre) + Abs(y - Centre))

\* if h < 0 { continue; }
Skipped_zeroToo(h) == h <= 0
Skipped(h) == h < 0

\* match (x_i32 >= 0, y_i32 >= 0)
Color(x, y) ==
    LET xi == x - Centre
        yi == y - Centre
    IN CASE xi >= 0 /\ yi >= 0 -> 7
         [] ~(xi >= 0) /\ yi >= 0 -> 1
         [] ~(xi >= 0) /\ ~(yi >= 0) -> 2
         [] xi >= 0 /\ ~(yi >= 0) -> 5

\* for y in 0..64 { .. }: the inner loop over row x, pushing onto surface s
\* the voxel of every column that is not skipped, in ascending y
InnerLoop(s, x) ==
    LET ys == SelectSeq([i \in 1..GridSize |-> i - 1],
                        LAMBDA y : ~Skipped(Height(x, y)))
    IN s \o [i \in 1..Len(ys) |-> <<x, ys[i], <<Abs(Height(x, ys[i])), Color(x, ys[i])>>>>]

\* a caller invokes gen_pyramid_surface: PixelSurface::new()
PyramidCall ==
    /\ surf_pc \in {"idle", "returned"}
    /\ surface_calls < MaxCalls
    /\ surface_calls' = surface_calls + 1
    /\ surf_pc' = "loop"
    /\ gx' = 0
    /\ pixel_surface' = <<>>
    /\ UNCHANGED <<ctxVars, drawVars, projVars>>

\* one turn of the outer loop, for x = gx
PyramidRow ==
    /\ surf_pc = "loop"
    /\ gx < GridSize
    /\ pixel_surface' = InnerLoop(pixel_surface, gx)
    /\ gx' = gx + 1
    /\ UNCHANGED <<surf_pc, surface_calls, ctxVars, drawVars, projVars>>

\* the loop is over: pixel_surface is returned
PyramidReturn ==
    /\ surf_pc = "loop"
    /\ gx >= GridSize
    /\ surf_pc' = "returned"
    /\ UNCHANGED <<gx, pixel_surface, surface_calls, ctxVars, drawVars, projVars>>

InitSurface == InitCtx /\ InitDraw /\ InitSurfaceIdle /\ InitProjIdle
NextSurface == PyramidCall \/ PyramidRow \/ PyramidReturn
SpecSurface == InitSurface /\ [][NextSurface]_vars

\* ------------------------------------------------- the projection closure
\* an f64 as far as the closure tells values apart: NaN, or m * 10^e
F(m, e) == [nan |-> FALSE, m |-> m, e |-> e]
NaN == [nan |-> TRUE, m |-> 0, e |-> 0]
\* the pitch and yaw a caller passes
Floats == {F(0, 0), F(5, -21), F(-5, -21), F(1, -20), F(-1, -20),
           F(11, -21), F(-11, -21), F(5, -1), F(-1, 0), NaN}

\* f.abs() > 1e-20 (false for NaN)
AbsGtEps(f) ==
    /\ ~f.nan
    /\ f.m # 0
    /\ IF f.e > EpsExp THEN TRUE
       ELSE IF f.e = EpsExp THEN Abs(f.m) > EpsMant
       ELSE Abs(f.m) > EpsMant * 10^(EpsExp - f.e)

\* i32 division, which truncates toward zero
TruncDiv(a, b) == IF a >= 0 THEN a \div b ELSE -((-a) \div b)
Min(a, b) == IF a <= b THEN a ELSE b
Max(a, b) == IF a >= b THEN a ELSE b

\* let v = (x.end - x.start).min(y.end - y.start) * 4 / 5 / 2
PivotBefore_max(r) == TruncDiv(TruncDiv(Max(r.x1 - r.x0, r.y1 - r.y0) * 4, 5), 2)
PivotBefore(r) == TruncDiv(TruncDiv(Min(r.x1 - r.x0, r.y1 - r.y0) * 4, 5), 2)
\* let after = ((x.start + x.end) / 2, (y.start + y.end) / 2)
PivotAfter(r) == <<TruncDiv(r.x0 + r.x1, 2), TruncDiv(r.y0 + r.y1, 2)>>

\* ProjectionMatrix values, as the factors of the product, left to right
Default == <<>>
Shift(x, y, z) == <<[op |-> "shift", args |-> <<x, y, z>>]>>
Rotate(x, y, z) == <<[op |-> "rotate", args |-> <<x, y, z>>]>>
Scale(f) == <<[op |-> "scale", args |-> <<f>>]>>
Mul(a, b) == a \o b

\* the closure: the matrix it returns for a pixel range, pitch and yaw
Projection_pitchFirst(r, pit, ya) ==
    LET v == PivotBefore(r)
        after == PivotAfter(r)
        m0 == IF <<v, v, v>> = <<0, 0, 0>>
              THEN Default
              ELSE Mul(Shift(F(-v, 0), F(-v, 0), F(-v, 0)), Default)
        m1 == IF AbsGtEps(pit) THEN Mul(m0, Rotate(pit, F(0, 0), F(0, 0))) ELSE m0
        m2 == IF AbsGtEps(ya) THEN Mul(m1, Rotate(F(0, 0), F(0, 0), ya)) ELSE m1
        m3 == Mul(m2, Scale(F(7, -1)))
    IN IF after # <<0, 0>>
       THEN Mul(m3, Shift(F(after[1], 0), F(after[2], 0), F(0, 0)))
       ELSE m3
Projection(r, pit, ya) ==
    LET v == PivotBefore(r)
        after == PivotAfter(r)
        m0 == IF <<v, v, v>> = <<0, 0, 0>>
              THEN Default
              ELSE Mul(Shift(F(-v, 0), F(-v, 0), F(-v, 0)), Default)
        m1 == IF AbsGtEps(ya) THEN Mul(m0, Rotate(F(0, 0), F(0, 0), ya)) ELSE m0
        m2 == IF AbsGtEps(pit) THEN Mul(m1, Rotate(pit, F(0, 0), F(0, 0))) ELSE m1
        m3 == Mul(m2, Scale(F(7, -1)))
    IN IF after # <<0, 0>>
       THEN Mul(m3, Shift(F(after[1], 0), F(after[2], 0), F(0, 0)))
       ELSE m3

NoMat == [built |-> FALSE, steps |-> <<>>]

\* chart.with_projection(|_pb| ..) runs the closure once for the frame
WithProjection ==
    /\ ~mat.built
    /\ mat' = [built |-> TRUE, steps |-> Projection(range, pitch, yaw)]
    /\ UNCHANGED <<range, pitch, yaw, ctxVars, drawVars, surfaceVars>>

\* the pixel range of the canvas' root drawing area: (0..w, 0..h)
PixelRanges == {[x0 |-> 0, x1 |-> w, y0 |-> 0, y1 |-> h] : w \in 0..MaxDim, h \in 0..MaxDim}

InitProj ==
    /\ InitCtx /\ InitDraw /\ InitSurfaceIdle
    /\ range \in PixelRanges
    /\ pitch \in Floats
    /\ yaw \in Floats
    /\ mat = NoMat
NextProj == WithProjection
SpecProj == InitProj /\ [][NextProj]_vars

\* =============================================================== properties

\* the steps of a frame in the order the design gives them
FrameOrder(ang) ==
    <<"fill", "chart", "axes", "labels", "screen", "real">>
    \o (IF ang.some THEN <<"mirror">> ELSE <<>>)
    \o <<"emu", "led", "legend">>
StepsOf(cv) == [i \in 1..Len(cv) |-> cv[i].step]
Drawn(p, step) == \E i \in 1..Len(canvas[p]) : canvas[p][i].step = step
DataOf(p, step) == canvas[p][CHOOSE i \in 1..Len(canvas[p]) : canvas[p][i].step = step].data
StepsBefore(step, ang) ==
    LET order == FrameOrder(ang)
        k == CHOOSE i \in 1..Len(order) : order[i] = step
    IN SubSeq(order, 1, k - 1)
OutOfRange(ang) == ang.some /\ ang.val >= TotalAngles

\* C1: whichever backend step of a frame fails (fill, chart build, axis frame,
\* axis-label glyphs, SCREEN, REAL, MIRROR, EMULATOR, LED, legend box), draw
\* returns a draw error to its caller and does not panic, no later step has
\* run, and the steps before the failing one are the ones drawn.
C1_FailedStepReturnsDrawError ==
    \A p \in Threads :
        failed[p] # "none" =>
            /\ result[p] = "err"
            /\ pc[p] = "idle"
            /\ StepsOf(canvas[p]) = StepsBefore(failed[p], angle[p])

\* C1, without the axis-label step: every other backend step that fails makes
\* draw return the draw error with exactly the earlier steps drawn.
C1_OtherStepsReturnDrawError ==
    \A p \in Threads :
        (failed[p] # "none" /\ failed[p] # "labels") =>
            /\ result[p] = "err"
            /\ pc[p] = "idle"
            /\ StepsOf(canvas[p]) = StepsBefore(failed[p], angle[p])

\* the counts of the codec calls and the reads of the cache, in one state
C2_State ==
    /\ new_calls <= 1
    /\ encode_calls <= 1
    /\ \A a \in Angles : decode_calls[a] <= 1
    /\ \A a \in Angles : a \notin DOMAIN angle_map => decode_calls[a] = 0
    /\ once = "complete" =>
        /\ new_calls = 1
        /\ encode_calls = 1
        /\ \A a \in DOMAIN angle_map : decode_calls[a] = 1
    /\ once # "complete" => CTX = NoCtx
    /\ \A p \in Threads :
        (Drawn(p, "screen") \/ pc[p] \in {"real", "select", "mirror", "emu", "led", "legend"})
            => once = "complete"
\* what a step may do once the cache is built
C2_Step ==
    once = "complete" =>
        /\ CTX' = CTX
        /\ once' = once
        /\ new_calls' = new_calls
        /\ encode_calls' = encode_calls
        /\ decode_calls' = decode_calls
\* C2: Ctx::new, and with it Codec::encode, never runs a second time, decode
\* never runs twice for an angle and never for an angle absent from the encode
\* mapping; from the moment the Once is complete each has run exactly once
\* (decode once per angle of the mapping); a draw call has read the cache only
\* when the build was complete; and no step of any draw call, succeeding or
\* failing, changes the built cache or runs the codec again.
C2_CacheBuiltOnce == []C2_State /\ [][C2_Step]_vars

\* a second thread waits at its first use of CTX while the builder has run
\* encode and every decode, one angle present in the mapping and one absent
C2_Witness ==
    /\ once = "running"
    /\ next_angle \notin AngleRange
    /\ encode_calls = 1
    /\ \E q \in Threads : q # builder /\ pc[q] = "screen"
    /\ \E a \in Angles : decode_calls[a] = 1
    /\ \E a \in Angles : a \notin DOMAIN angle_map

\* C3: after Ctx::new, whatever sparse mapping encode returned, angle_ctx_map
\* has exactly TOTAL_ANGLES entries with keys 0 .. TOTAL_ANGLES-1, each entry
\* has its mirror pose, and an angle absent from the mapping has empty
\* led_pixels and emu_pixels.
C3_DenseAngleMap ==
    once = "complete" =>
        /\ DOMAIN CTX.angle_ctx_map = 0..(TotalAngles - 1)
        /\ Cardinality(DOMAIN CTX.angle_ctx_map) = TotalAngles
        /\ \A a \in DOMAIN CTX.angle_ctx_map :
            /\ CTX.angle_ctx_map[a].mirror = <<"mirror", a, 0>>
            /\ a \notin DOMAIN angle_map =>
                /\ CTX.angle_ctx_map[a].led_pixels = <<>>
                /\ CTX.angle_ctx_map[a].emu_pixels = <<>>

C3_Witness ==
    /\ once = "complete"
    /\ \E a \in Angles : a \notin DOMAIN angle_map
    /\ \E a \in Angles : a \in DOMAIN angle_map /\ CTX.angle_ctx_map[a].led_pixels # <<>>

RECURSIVE ConcatEmu(_, _)
ConcatEmu(m, n) == IF n = 0 THEN <<>> ELSE ConcatEmu(m, n - 1) \o m[n - 1].emu_pixels
RECURSIVE ConcatLed(_, _)
ConcatLed(m, n) == IF n = 0 THEN <<>> ELSE ConcatLed(m, n - 1) \o m[n - 1].led_pixels
RECURSIVE SumLen(_, _)
SumLen(lens, n) == IF n = 0 THEN 0 ELSE SumLen(lens, n - 1) + lens[n - 1]

\* C4: after Ctx::new, all_emu_pixels is the concatenation of the per-angle
\* emu_pixels of angle_ctx_map in ascending angle order, all_led_pixels that of
\* the led_pixels, and each aggregate is as long as its per-angle lists together.
C4_AggregatesAreConcatenations ==
    once = "complete" =>
        /\ CTX.all_emu_pixels = ConcatEmu(CTX.angle_ctx_map, TotalAngles)
        /\ CTX.all_led_pixels = ConcatLed(CTX.angle_ctx_map, TotalAngles)
        /\ Len(CTX.all_emu_pixels) =
            SumLen([a \in Angles |-> Len(CTX.angle_ctx_map[a].emu_pixels)], TotalAngles)
        /\ Len(CTX.all_led_pixels) =
            SumLen([a \in Angles |-> Len(CTX.angle_ctx_map[a].led_pixels)], TotalAngles)

C4_Witness ==
    /\ once = "complete"
    /\ \E a, b \in Angles :
        /\ a # b
        /\ CTX.angle_ctx_map[a].emu_pixels # <<>>
        /\ CTX.angle_ctx_map[b].emu_pixels # <<>>
        /\ CTX.angle_ctx_map[b].led_pixels # <<>>

\* C5: the emulator cloud and the LED cloud draw has selected for an angle in
\* [0, TOTAL_ANGLES) are no longer than the clouds it selects with no angle,
\* and strictly shorter when another angle has content of that kind.
C5_SelectedCloudNoLarger ==
    \A p \in Threads :
        (angle[p].some /\ Drawn(p, "mirror")) =>
            LET a == angle[p].val
                m == CTX.angle_ctx_map
            IN /\ a \in 0..(TotalAngles - 1)
               /\ Len(clouds[p].emu) <= Len(CTX.all_emu_pixels)
               /\ Len(clouds[p].led) <= Len(CTX.all_led_pixels)
               /\ (\E b \in Angles : b # a /\ m[b].emu_pixels # <<>>)
                    => Len(clouds[p].emu) < Len(CTX.all_emu_pixels)
               /\ (\E b \in Angles : b # a /\ m[b].led_pixels # <<>>)
                    => Len(clouds[p].led) < Len(CTX.all_led_pixels)

C5_Witness ==
    \E p \in Threads :
        /\ angle[p].some
        /\ Drawn(p, "emu")
        /\ Len(clouds[p].emu) > 0
        /\ Len(clouds[p].emu) < Len(CTX.all_emu_pixels)
        /\ Len(clouds[p].led) = Len(CTX.all_led_pixels)

\* the surface the design describes: one voxel for each column of the 64 x 64
\* grid whose height 32 - (|x-32| + |y-32|) is not negative
SurfaceColor(x, y) ==
    IF x >= 32 /\ y >= 32 THEN 7
    ELSE IF x < 32 /\ y >= 32 THEN 1
    ELSE IF x < 32 /\ y < 32 THEN 2
    ELSE 5
SurfaceHeight(x, y) == 32 - (Abs(x - 32) + Abs(y - 32))
ExpectedSurface ==
    {<<c[1], c[2], <<SurfaceHeight(c[1], c[2]), SurfaceColor(c[1], c[2])>>>> :
        c \in {d \in (0..63) \X (0..63) : SurfaceHeight(d[1], d[2]) >= 0}}
Voxels == {pixel_surface[i] : i \in 1..Len(pixel_surface)}


\* C6: gen_pyramid_surface returns exactly the voxels (x, y, (h, color)) of the
\* columns of [0,64) x [0,64) with h = 32 - (|x-32| + |y-32|) >= 0, each once,
\* with color 0b111, 0b001, 0b010, 0b101 by the quadrant of (x, y) around
\* (32, 32); a column with h = 0 is present, (32,32) gives z = 32 and 0b111,
\* and (0,0) is excluded.
C6_PyramidSurface ==
    surf_pc = "returned" =>
        /\ Voxels = ExpectedSurface
        /\ Len(pixel_surface) = Cardinality(ExpectedSurface)
        /\ \A i, j \in 1..Len(pixel_surface) :
            (pixel_surface[i][1] = pixel_surface[j][1]
                /\ pixel_surface[i][2] = pixel_surface[j][2]) => i = j
        /\ <<32, 32, <<32, 7>>>> \in Voxels
        /\ \E v \in Voxels : v[3][1] = 0
        /\ \A v \in Voxels : ~(v[1] = 0 /\ v[2] = 0) /\ v[3][1] >= 0

C6_Witness ==
    /\ surf_pc = "returned"
    /\ <<0, 32, <<0, 1>>>> \in Voxels
    /\ <<31, 31, <<30, 2>>>> \in Voxels
    /\ <<32, 31, <<31, 5>>>> \in Voxels

\* the gate of the design: |f| > 1e-20
GtEps(f) ==
    /\ ~f.nan
    /\ IF f.e >= -19 THEN f.m # 0 ELSE Abs(f.m) * 10^(f.e + 21) > 10
IsYaw(s) == s.op = "rotate" /\ s.args = <<F(0, 0), F(0, 0), yaw>>
IsPitch(s) == s.op = "rotate" /\ s.args = <<pitch, F(0, 0), F(0, 0)>>
IsScale(s) == s.op = "scale" /\ s.args = <<F(7, -1)>>
IsRotate(s) == s.op = "rotate"
IsShift(s) == s.op = "shift"
StepIdx == 1..Len(mat.steps)
YawIdx == {i \in StepIdx : IsYaw(mat.steps[i])}
PitchIdx == {i \in StepIdx : IsPitch(mat.steps[i])}
ScaleIdx == {i \in StepIdx : IsScale(mat.steps[i])}
RotateIdx == {i \in StepIdx : IsRotate(mat.steps[i])}
ShiftIdx == {i \in StepIdx : IsShift(mat.steps[i])}

\* C7: the projection is composed in the order [recentring shift], [yaw
\* rotation], [pitch rotation], scale 0.7, [final shift]; the yaw rotation is
\* there exactly when |yaw| > 1e-20, the pitch rotation exactly when
\* |pitch| > 1e-20 (neither with pitch = yaw = 0), yaw comes before pitch, and
\* the scale is always there, after both rotations.
C7_ProjectionOrder ==
    mat.built =>
        /\ Cardinality(ScaleIdx) = 1
        /\ Cardinality(YawIdx) = (IF GtEps(yaw) THEN 1 ELSE 0)
        /\ Cardinality(PitchIdx) = (IF GtEps(pitch) THEN 1 ELSE 0)
        /\ RotateIdx = YawIdx \cup PitchIdx
        /\ \A i \in YawIdx, j \in PitchIdx : i < j
        /\ \A i \in RotateIdx, j \in ScaleIdx : i < j
        /\ \A i \in ShiftIdx :
            \/ i = 1 /\ \A j \in RotateIdx \cup ScaleIdx : i < j
            \/ i = Len(mat.steps) /\ \A j \in RotateIdx \cup ScaleIdx : j < i
        /\ (pitch = F(0, 0) /\ yaw = F(0, 0)) => RotateIdx = {}

C7_Witness ==
    /\ mat.built
    /\ GtEps(yaw)
    /\ GtEps(pitch)
    /\ Len(mat.steps) = 5
    /\ IsYaw(mat.steps[2])
    /\ IsPitch(mat.steps[3])

\* the viewport radius and centre of the design, in truncating arithmetic
RadiusV == (((Min(range.x1 - range.x0, range.y1 - range.y0) * 4) \div 5) \div 2)
CentreX == (range.x0 + range.x1) \div 2
CentreY == (range.y0 + range.y1) \div 2
Degenerate == range = [x0 |-> 0, x1 |-> 0, y0 |-> 0, y1 |-> 0]
Nonzero(f) == ~f.nan /\ f.m # 0
\* the shifts are composed as the design says: the recentring one exactly
\* when v # 0, the final one exactly when the centre is not (0, 0)
ShiftsAsDesigned ==
    LET n == Len(mat.steps)
        first == {i \in ShiftIdx : \A j \in ScaleIdx : i < j}
        last == {i \in ShiftIdx : \A j \in ScaleIdx : j < i}
    IN /\ Cardinality(ScaleIdx) = 1
       /\ (first # {}) <=> (RadiusV # 0)
       /\ first # {} =>
            /\ first = {1}
            /\ mat.steps[1].args = <<F(-RadiusV, 0), F(-RadiusV, 0), F(-RadiusV, 0)>>
       /\ (last # {}) <=> (<<CentreX, CentreY>> # <<0, 0>>)
       /\ last # {} =>
            /\ last = {n}
            /\ mat.steps[n].args = <<F(CentreX, 0), F(CentreY, 0), F(0, 0)>>

\* C8 as stated: with v = min(width, height) * 4 / 5 / 2 the recentring shift
\* by (-v,-v,-v) is composed iff v # 0 and the final shift by (cx, cy, 0) iff
\* (cx, cy) # (0, 0); with the (0,0)-(0,0) viewport the recentring shift is
\* omitted while the scale and every rotation whose angle is nonzero are applied.
C8_NonzeroRotationsApplied ==
    mat.built =>
        /\ ShiftsAsDesigned
        /\ Degenerate =>
            /\ \A i \in ShiftIdx : FALSE
            /\ ScaleIdx # {}
            /\ Nonzero(yaw) => YawIdx # {}
            /\ Nonzero(pitch) => PitchIdx # {}

\* C8, amended: as above, but with the (0,0)-(0,0) viewport the rotations that
\* are applied are those whose angle exceeds 1e-20 in magnitude; a nonzero
\* angle at or below that gate is skipped.
C8_GatedRotationsApplied ==
    mat.built =>
        /\ ShiftsAsDesigned
        /\ Degenerate =>
            /\ \A i \in ShiftIdx : FALSE
            /\ ScaleIdx # {}
            /\ GtEps(yaw) <=> YawIdx # {}
            /\ GtEps(pitch) <=> PitchIdx # {}

C8_Witness ==
    /\ mat.built
    /\ Degenerate
    /\ Nonzero(yaw) /\ ~GtEps(yaw)
    /\ GtEps(pitch)
    /\ Len(mat.steps) = 2
    /\ IsPitch(mat.steps[1])
    /\ IsScale(mat.steps[2])

\* C9: a draw call with angle = Some(a), a >= TOTAL_ANGLES, that reaches the
\* angle lookup halts there: it never returns Ok or a draw error from the
\* lookup on, and never draws the MIRROR, EMULATOR or LED series or the legend
\* box. A draw call with an angle in [0, TOTAL_ANGLES), or with none, never
\* halts at the lookup, also when that angle has no decoded content.
C9_LookupHaltsOnlyOutOfRange ==
    \A p \in Threads :
        /\ OutOfRange(angle[p]) =>
            /\ pc[p] \notin {"mirror", "emu", "led", "legend"}
            /\ result[p] # "ok"
            /\ \A s \in {"mirror", "emu", "led", "legend"} : ~Drawn(p, s)
            /\ (pc[p] = "idle" /\ Drawn(p, "real")) => result[p] = "panic:lookup"
        /\ ~OutOfRange(angle[p]) => result[p] # "panic:lookup"
        /\ result[p] = "panic:lookup" => (Drawn(p, "real") /\ failed[p] = "none")

C9_Witness ==
    \E p \in Threads :
        /\ angle[p] = Some(TotalAngles)
        /\ result[p] = "panic:lookup"
        /\ StepsOf(canvas[p]) = <<"fill", "chart", "axes", "labels", "screen", "real">>

\* an in-range angle without decoded content passes the lookup
C9_EmptyAngleDrawn ==
    \E p \in Threads :
        /\ angle[p].some
        /\ result[p] = "ok"
        /\ angle[p].val \notin DOMAIN angle_map

\* C10: a draw call that succeeds has drawn, in this order: background, (chart
\* build,) axis frame, axis labels, the 3 SCREEN quads, the REAL cloud, the
\* MIRROR quad of the selected angle iff an angle is selected, the EMULATOR
\* cloud, the LED cloud, the legend box; LED is the last series and has no
\* legend entry; the clouds are all_emu / all_led with no angle selected and
\* that angle's emu_pixels / led_pixels otherwise.
C10_SuccessfulFrameOrder ==
    \A p \in Threads :
        result[p] = "ok" =>
            /\ StepsOf(canvas[p]) = FrameOrder(angle[p])
            /\ Len(DataOf(p, "screen")) = 3
            /\ DataOf(p, "real") = CTX.all_real_pixels
            /\ legend[p] = <<"SCREEN", "REAL">>
                           \o (IF angle[p].some THEN <<"MIRROR">> ELSE <<>>)
                           \o <<"EMULATOR">>
            /\ IF angle[p].some
               THEN /\ DataOf(p, "mirror") = <<CTX.angle_ctx_map[angle[p].val].mirror>>
                    /\ DataOf(p, "emu") = CTX.angle_ctx_map[angle[p].val].emu_pixels
                    /\ DataOf(p, "led") = CTX.angle_ctx_map[angle[p].val].led_pixels
               ELSE /\ DataOf(p, "emu") = CTX.all_emu_pixels
                    /\ DataOf(p, "led") = CTX.all_led_pixels

C10_Witness ==
    \E p \in Threads :
        /\ result[p] = "ok"
        /\ angle[p].some
        /\ DataOf(p, "emu") # <<>>
        /\ DataOf(p, "led") # <<>>
        /\ Len(CTX.all_emu_pixels) > Len(DataOf(p, "emu"))

====
